---- MODULE Spec2Model ----
(***************************************************************************)
(* A model of scripts/generate_skill_tree.py: the caching, rate-limit      *)
(* aware GitHubAPI client (_check_rate_limit, _request, get_user_info,     *)
(* get_all_repos, get_repo_languages, get_contribution_stats), the         *)
(* AdvancedProfileAnalyzer (analyze, _analyze_repo, _process_skills) and   *)
(* the part of main that runs them and hands the skills to the renderers.  *)
(*                                                                         *)
(* Time is an integer number of ticks; one tick is the client's            *)
(* request_delay (0.1 s), so TicksPerSecond ticks make one second.  The    *)
(* tracked rate_limit_reset is kept in whole seconds, as the code keeps    *)
(* it (int(header)).  A JSON body is a sequence: a list is the sequence of *)
(* its elements, a dict the sequence of its items in insertion order, so   *)
(* that {} and [] are both <<>> (every caller only tests their truth).     *)
(***************************************************************************)
EXTENDS Integers, Sequences, FiniteSets, TLC

VARIABLES
    cache,                  \* GitHubAPI.cache: cache_key -> decoded body
    rate_limit_remaining,   \* GitHubAPI.rate_limit_remaining
    rate_limit_reset,       \* GitHubAPI.rate_limit_reset (epoch seconds)
    now,                    \* time.time(), in ticks
    req,                    \* the frame of the running _request call
    hist,                   \* what the running (or last) _request call did
    log,                    \* the completed _request calls, oldest first
    op,                     \* which caller of _request is running ("idle": none)
    calls,                  \* how many top-level operations were started
    faults,                 \* how many attempts the server did not answer with success
    gar,                    \* the frame (and return value) of get_all_repos
    repo,                   \* the repository _analyze_repo is working on
    skills,                 \* AdvancedProfileAnalyzer.skills, in insertion order
    recs,                   \* the recency weights _analyze_repo computed from dates
    processed,              \* the return value of _process_skills
    rendered,               \* main's skills, as handed to the rendering components
    run                     \* main and analyze(): position, username known, repos, stats

client == <<cache, rate_limit_remaining, rate_limit_reset, now, req, hist, log>>
analysis == <<repo, skills, recs, processed, rendered, run>>
vars == <<cache, rate_limit_remaining, rate_limit_reset, now, req, hist, log, op, calls,
          faults, gar, repo, skills, recs, processed, rendered, run>>

----------------------------------------------------------------------------
(* Bounds of the model *)

MaxCalls == 2       \* top-level operations per run
MaxFaults == 3      \* attempts per run the server answers with an error
MaxListings == 2    \* get_all_repos calls per run
MaxRepos == 2       \* repositories analyze() goes through
Now0 == 1000        \* the clock at construction (ticks)

(* Program constants *)

TicksPerSecond == 10        \* request_delay = 0.1 s is one tick
InitialRemaining == 5000
RetryCount == 3
MaxWait == 300              \* seconds
LowWaterMark == 10
DefaultResetAhead == 3600   \* seconds, a 403 without X-RateLimit-Reset
DefaultRetryAfter == 60     \* seconds, a 429 without Retry-After

Max(a, b) == IF a >= b THEN a ELSE b
Min(a, b) == IF a <= b THEN a ELSE b

Pow2(n) == IF n = 0 THEN 1 ELSE IF n = 1 THEN 2 ELSE 4

----------------------------------------------------------------------------
(* Values *)

NoResult == [none |-> TRUE, data |-> <<>>]      \* (None, None)

\* A successful call that returns the absent result.
ResultAbsent(body) == [none |-> TRUE, data |-> <<>>]

Result(body) == [none |-> FALSE, data |-> body]

Absent == [present |-> FALSE, value |-> 0]      \* a header the response lacks
Header(v) == [present |-> TRUE, value |-> v]

\* a response body: the text of a JSON value, or text that is no JSON
\* (of which nothing is kept)
Json(v) == [json |-> TRUE, value |-> v]
Malformed == [json |-> FALSE, value |-> <<>>]

\* lines 82-85: json.loads, and {} on a JSONDecodeError
Decode(body) == IF body.json THEN body.value ELSE <<>>

\* cache_key = f"{endpoint}:{json.dumps(params or {})}"
CacheKey(endpoint, params) == <<endpoint, params>>

IdleReq == [pc |-> "idle", key |-> <<"", "">>, attempt |-> 0, result |-> NoResult]
NoHist == [net |-> 0, codes |-> <<>>, sleeps |-> <<>>, hit |-> FALSE]

\* a sleep: why, for how many ticks; for a 403, d = reset - now in ticks and
\* whether the response carried the reset header
SleepRec(kind, dur, d) == [kind |-> kind, dur |-> dur, d |-> d, header |-> FALSE]

Done(key, result, h) == [key |-> key, none |-> result.none, data |-> result.data,
                         net |-> h.net, hit |-> h.hit]

----------------------------------------------------------------------------
(* GitHubAPI._check_rate_limit: the tracked quota after the check and the  *)
(* ticks slept (0: no sleep).                                              *)

\* A check without the stale-state refresh.
CheckRateLimitNoRefresh(remaining, reset, t) ==
    LET wait_time == Max(reset * TicksPerSecond - t, 0) + TicksPerSecond
    IN  IF remaining < LowWaterMark
        THEN [remaining |-> InitialRemaining,
              slept |-> Min(wait_time, MaxWait * TicksPerSecond)]
        ELSE [remaining |-> remaining, slept |-> 0]

\* A check that sleeps but leaves the tracked quota as it was.
CheckRateLimitNoReplenish(remaining, reset, t) ==
    LET refreshed == IF t >= reset * TicksPerSecond THEN InitialRemaining ELSE remaining
        wait_time == Max(reset * TicksPerSecond - t, 0) + TicksPerSecond
    IN  IF refreshed < LowWaterMark
        THEN [remaining |-> refreshed, slept |-> Min(wait_time, MaxWait * TicksPerSecond)]
        ELSE [remaining |-> refreshed, slept |-> 0]

CheckRateLimit(remaining, reset, t) ==
    LET refreshed == IF t >= reset * TicksPerSecond THEN InitialRemaining ELSE remaining
        wait_time == Max(reset * TicksPerSecond - t, 0) + TicksPerSecond
    IN  IF refreshed < LowWaterMark
        THEN IF wait_time > 0
             THEN [remaining |-> InitialRemaining,
                   slept |-> Min(wait_time, MaxWait * TicksPerSecond)]
             ELSE [remaining |-> refreshed, slept |-> 0]
        ELSE [remaining |-> refreshed, slept |-> 0]

\* A _request that never looks its key up in the cache.
RequestEnterNoLookup(key) ==
    LET chk == CheckRateLimit(rate_limit_remaining, rate_limit_reset, now)
        low == IF chk.slept > 0 THEN <<SleepRec("low", chk.slept, 0)>> ELSE <<>>
    IN  /\ rate_limit_remaining' = chk.remaining
        /\ now' = now + chk.slept + 1
        /\ req' = [pc |-> "attempt", key |-> key, attempt |-> 0, result |-> NoResult]
        /\ hist' = [NoHist EXCEPT !.sleeps = low \o <<SleepRec("pace", 1, 0)>>]
        /\ UNCHANGED <<cache, rate_limit_reset, log>>

\* A _request that checks the quota and paces before it looks in the cache.
RequestEnterCheckFirst(key) ==
    LET chk == CheckRateLimit(rate_limit_remaining, rate_limit_reset, now)
        low == IF chk.slept > 0 THEN <<SleepRec("low", chk.slept, 0)>> ELSE <<>>
        h == [NoHist EXCEPT !.sleeps = low \o <<SleepRec("pace", 1, 0)>>]
    IN  /\ rate_limit_remaining' = chk.remaining
        /\ now' = now + chk.slept + 1
        /\ UNCHANGED <<cache, rate_limit_reset>>
        /\ IF key \in DOMAIN cache
           THEN /\ req' = [pc |-> "ret", key |-> key, attempt |-> 0,
                           result |-> Result(cache[key])]
                /\ hist' = [h EXCEPT !.hit = TRUE]
                /\ log' = Append(log, Done(key, Result(cache[key]), [h EXCEPT !.hit = TRUE]))
           ELSE /\ req' = [pc |-> "attempt", key |-> key, attempt |-> 0, result |-> NoResult]
                /\ hist' = h
                /\ UNCHANGED log

(* GitHubAPI._request, lines 56-64: the cache lookup; on a miss the rate   *)
(* limit check and the pacing delay, then the attempt loop starts.         *)

RequestEnter(key) ==
    IF key \in DOMAIN cache
    THEN /\ req' = [pc |-> "ret", key |-> key, attempt |-> 0, result |-> Result(cache[key])]
         /\ hist' = [NoHist EXCEPT !.hit = TRUE]
         /\ log' = Append(log, Done(key, Result(cache[key]), [NoHist EXCEPT !.hit = TRUE]))
         /\ UNCHANGED <<cache, rate_limit_remaining, rate_limit_reset, now>>
    ELSE LET chk == CheckRateLimit(rate_limit_remaining, rate_limit_reset, now)
             low == IF chk.slept > 0 THEN <<SleepRec("low", chk.slept, 0)>> ELSE <<>>
         IN  /\ rate_limit_remaining' = chk.remaining
             /\ now' = now + chk.slept + 1
             /\ req' = [pc |-> "attempt", key |-> key, attempt |-> 0, result |-> NoResult]
             /\ hist' = [NoHist EXCEPT !.sleeps = low \o <<SleepRec("pace", 1, 0)>>]
             /\ UNCHANGED <<cache, rate_limit_reset, log>>

(* The end of one iteration of `for attempt in range(retry_count)` that    *)
(* did not return: the next iteration, or line 117 after the last one.     *)

\* A retry loop that runs one attempt too many.
NextAttemptOffByOne(h) ==
    IF req.attempt + 1 <= RetryCount
    THEN /\ req' = [req EXCEPT !.attempt = req.attempt + 1]
         /\ UNCHANGED log
    ELSE /\ req' = [req EXCEPT !.pc = "ret", !.result = NoResult]
         /\ log' = Append(log, Done(req.key, NoResult, h))

NextAttempt(h) ==
    IF req.attempt + 1 < RetryCount
    THEN /\ req' = [req EXCEPT !.attempt = req.attempt + 1]
         /\ UNCHANGED log
    ELSE /\ req' = [req EXCEPT !.pc = "ret", !.result = NoResult]
         /\ log' = Append(log, Done(req.key, NoResult, h))

Sent(code) == [hist EXCEPT !.net = hist.net + 1, !.codes = Append(hist.codes, code)]

(* lines 73-88: a successful response *)
ReqSuccess(remaining, reset, body) ==
    /\ req.pc = "attempt"
    /\ LET h == Sent(200)
           data == Decode(body)
       IN  /\ hist' = h
           /\ rate_limit_remaining' =
                 IF remaining.present THEN remaining.value ELSE rate_limit_remaining
           /\ rate_limit_reset' = IF reset.present THEN reset.value ELSE rate_limit_reset
           /\ cache' = [k \in DOMAIN cache \cup {req.key} |->
                           IF k = req.key THEN data ELSE cache[k]]
           /\ req' = [req EXCEPT !.pc = "ret", !.result = Result(data)]
           /\ log' = Append(log, Done(req.key, Result(data), h))
    /\ UNCHANGED <<now, op, calls, gar, analysis>>

\* A 403 sleep that is not capped.
SleepTime403NoCap(reset_time, t) ==
    Max(reset_time * TicksPerSecond - t, TicksPerSecond) + TicksPerSecond

(* lines 90-100: HTTP 403 *)
SleepTime403(reset_time, t) ==
    Min(Max(reset_time * TicksPerSecond - t, TicksPerSecond) + TicksPerSecond,
        MaxWait * TicksPerSecond)

ReqForbidden(remaining, reset) ==
    /\ req.pc = "attempt"
    /\ LET reset_time == IF reset.present THEN reset.value
                         ELSE (now \div TicksPerSecond) + DefaultResetAhead
           rem == IF remaining.present THEN remaining.value ELSE 0
           dur == SleepTime403(reset_time, now)
           h == [Sent(403) EXCEPT !.sleeps =
                    Append(hist.sleeps,
                           [SleepRec("403", dur, reset_time * TicksPerSecond - now)
                               EXCEPT !.header = reset.present])]
       IN  /\ rate_limit_remaining' = rem
           /\ rate_limit_reset' = reset_time
           /\ now' = now + dur
           /\ hist' = h
           /\ NextAttempt(h)
    /\ UNCHANGED <<cache, op, calls, gar, analysis>>

\* A 404 handled like any other HTTP error: retried.
ReqNotFoundRetried ==
    /\ req.pc = "attempt"
    /\ LET h == Sent(404)
       IN  /\ hist' = h
           /\ NextAttempt(h)
    /\ UNCHANGED <<cache, rate_limit_remaining, rate_limit_reset, now, op, calls, gar, analysis>>

(* lines 101-102: HTTP 404 *)
ReqNotFound ==
    /\ req.pc = "attempt"
    /\ LET h == Sent(404)
       IN  /\ hist' = h
           /\ req' = [req EXCEPT !.pc = "ret", !.result = NoResult]
           /\ log' = Append(log, Done(req.key, NoResult, h))
    /\ UNCHANGED <<cache, rate_limit_remaining, rate_limit_reset, now, op, calls, gar, analysis>>

(* lines 103-107: HTTP 429 *)
ReqTooMany(retry) ==
    /\ req.pc = "attempt"
    /\ LET retry_after == IF retry.present THEN retry.value ELSE DefaultRetryAfter
           dur == Min(retry_after, MaxWait) * TicksPerSecond
           h == [Sent(429) EXCEPT !.sleeps = Append(hist.sleeps, SleepRec("429", dur, 0))]
       IN  /\ now' = now + dur
           /\ hist' = h
           /\ NextAttempt(h)
    /\ UNCHANGED <<cache, rate_limit_remaining, rate_limit_reset, op, calls, gar, analysis>>

(* lines 108-110: any other HTTP error *)
ReqHttpError ==
    /\ req.pc = "attempt"
    /\ LET h == Sent(500)
       IN  /\ hist' = h
           /\ NextAttempt(h)
    /\ UNCHANGED <<cache, rate_limit_remaining, rate_limit_reset, now, op, calls, gar, analysis>>

(* lines 111-116: URLError *)
ReqNetworkError ==
    /\ req.pc = "attempt"
    /\ LET dur == Pow2(req.attempt) * TicksPerSecond
           h == IF req.attempt < RetryCount - 1
                THEN [Sent(0) EXCEPT !.sleeps = Append(hist.sleeps, SleepRec("net", dur, 0))]
                ELSE Sent(0)
       IN  /\ now' = IF req.attempt < RetryCount - 1 THEN now + dur ELSE now
           /\ hist' = h
           /\ NextAttempt(h)
    /\ UNCHANGED <<cache, rate_limit_remaining, rate_limit_reset, op, calls, gar, analysis>>

----------------------------------------------------------------------------
(* A direct caller of _request (get_user_info, the search queries of       *)
(* get_contribution_stats): calls it and takes what it returns.            *)

Endpoints == {"user", "search/issues"}
Keys == {CacheKey(e, "{}") : e \in Endpoints}

CallRequest(key) ==
    /\ op = "idle"
    /\ calls < MaxCalls
    /\ calls' = calls + 1
    /\ op' = "request"
    /\ RequestEnter(key)
    /\ UNCHANGED <<faults, gar, analysis>>

ReturnRequest ==
    /\ op = "request"
    /\ req.pc = "ret"
    /\ op' = "idle"
    /\ req' = [req EXCEPT !.pc = "idle"]
    /\ UNCHANGED <<cache, rate_limit_remaining, rate_limit_reset, now, hist, log, calls,
                   faults, gar, analysis>>

----------------------------------------------------------------------------
(* GitHubAPI.get_all_repos(username, limit), lines 125-147                 *)

MaxPages == 3
PerPage == 100

ReposKey(page) == CacheKey("users/U/repos", "page=" \o ToString(page))

Take(seq, n) == SubSeq(seq, 1, Min(Len(seq), Max(n, 0)))    \* seq[:n], n >= 0

NotFork(r) == ~r.fork

\* the return at line 147
GarReturn(g) ==
    /\ gar' = [g EXCEPT !.result = Take(g.repos, g.limit), !.done = TRUE]
    /\ op' = "idle"

\* A page loop that allows one page too many.
GarLoopExtraPage(g) ==
    IF Len(g.repos) < g.limit /\ g.page <= MaxPages + 1
    THEN /\ gar' = [g EXCEPT !.pages = Append(g.pages, g.page)]
         /\ op' = "get_all_repos"
         /\ RequestEnter(ReposKey(g.page))
    ELSE /\ GarReturn(g)
         /\ req' = IdleReq
         /\ UNCHANGED <<cache, rate_limit_remaining, rate_limit_reset, now, hist, log>>

\* the loop head at line 131: request the next page, or return
GarLoop(g) ==
    IF Len(g.repos) < g.limit /\ g.page <= MaxPages
    THEN /\ gar' = [g EXCEPT !.pages = Append(g.pages, g.page)]
         /\ op' = "get_all_repos"
         /\ RequestEnter(ReposKey(g.page))
    ELSE /\ GarReturn(g)
         /\ req' = IdleReq
         /\ UNCHANGED <<cache, rate_limit_remaining, rate_limit_reset, now, hist, log>>

GetAllReposCall(limit) ==
    /\ op = "idle"
    /\ calls < MaxListings
    /\ calls' = calls + 1
    /\ GarLoop([limit |-> limit, page |-> 1, repos |-> <<>>, pages |-> <<>>,
                got |-> <<>>, result |-> <<>>, done |-> FALSE])
    /\ UNCHANGED <<faults, analysis>>

\* lines 139-144: the page request has returned
GetAllReposPage ==
    /\ op = "get_all_repos"
    /\ req.pc = "ret"
    /\ LET data == req.result.data
           g == [gar EXCEPT !.got = Append(gar.got, req.result)]
           more == [g EXCEPT !.repos = g.repos \o SelectSeq(data, NotFork)]
       IN  IF req.result.none \/ data = <<>>
           THEN /\ GarReturn(g)
                /\ req' = IdleReq
                /\ UNCHANGED <<cache, rate_limit_remaining, rate_limit_reset, now, hist, log>>
           ELSE IF Len(data) < PerPage
           THEN /\ GarReturn(more)
                /\ req' = IdleReq
                /\ UNCHANGED <<cache, rate_limit_remaining, rate_limit_reset, now, hist, log>>
           ELSE GarLoop([more EXCEPT !.page = g.page + 1])
    /\ UNCHANGED <<calls, faults, analysis>>

----------------------------------------------------------------------------
(* AdvancedProfileAnalyzer._analyze_repo, lines 329-381.  Framework         *)
(* detection (lines 378-381) only fills data['frameworks'], which neither  *)
(* the level nor the ranking reads, and is left out.                       *)
(*                                                                         *)
(* Numbers: a recency weight is kept in units of 1/RecencyUnit, so that    *)
(* 0.3, 0.5 and days_old/730 are exact; a score is kept in thousandths.    *)

MinRepoSize == 10       \* size < 10: skipped
NoiseFloor == 1000      \* byte_count < 1000: skipped
DecayDays == 730
FloorTenths == 3        \* max(0.3, ...)
DefaultTenths == 5      \* recency = 0.5

RecencyUnit == 10 * DecayDays
RecencyFloor == FloorTenths * DecayDays
RecencyDefault == DefaultTenths * DecayDays

\* A decay without its floor.
DecayNoFloor(days_old) == RecencyUnit - 10 * days_old

\* line 353: max(0.3, 1.0 - days_old / 730)
Decay(days_old) == Max(RecencyFloor, RecencyUnit - 10 * days_old)

\* lines 347-355: pushed_at is missing, does not parse, or is days_old days back
Recency(pushed) == IF pushed.kind = "date" THEN Decay(pushed.days) ELSE RecencyDefault

RECURSIVE Log2(_)
Log2(n) == IF n < 2 THEN 0 ELSE 1 + Log2(n \div 2)

\* math.log(n) in thousandths, n >= 1: exact at the powers of two and linear
\* between them (within 0.06 of the logarithm)
LnMilli(n) == LET k == Log2(n) IN 693 * k + (693 * (n - 2^k)) \div (2^k)

\* lines 371-375: (base_score + repo_bonus + star_bonus) * recency
RepoScore(byte_count, r, recency) ==
    ((5 * LnMilli(byte_count + 1) + 2 * LnMilli(r.size + 1) + 3 * LnMilli(r.stars + 1))
        * recency) \div RecencyUnit

LangKey(name) == CacheKey("repos/U/" \o ToString(name) \o "/languages", "{}")

SkillIndex(sk, lang) ==
    LET at == {i \in 1..Len(sk) : sk[i].name = lang}
    IN  IF at = {} THEN 0 ELSE CHOOSE i \in at : TRUE

\* the defaultdict's fresh entry, lines 299-307
NewSkill(lang) ==
    [name |-> lang, bytes |-> 0, repos |-> 0, score |-> 0, recent_activity |-> 0,
     top_repo |-> [name |-> 0, bytes |-> 0]]

\* An aggregation that counts every byte count, however small.
AddLangNoFloor(sk, item, r, recency) ==
    LET i == SkillIndex(sk, item.k)
        all == IF i = 0 THEN Append(sk, NewSkill(item.k)) ELSE sk
        n == IF i = 0 THEN Len(all) ELSE i
        old == all[n]
    IN  [all EXCEPT ![n] = [old EXCEPT !.bytes = old.bytes + item.v,
                                       !.repos = old.repos + 1]]

\* lines 359-376: one item of the languages mapping
AddLang(sk, item, r, recency) ==
    IF item.v < NoiseFloor
    THEN sk
    ELSE LET i == SkillIndex(sk, item.k)
             all == IF i = 0 THEN Append(sk, NewSkill(item.k)) ELSE sk
             n == IF i = 0 THEN Len(all) ELSE i
             old == all[n]
         IN  [all EXCEPT ![n] =
                 [name |-> old.name,
                  bytes |-> old.bytes + item.v,
                  repos |-> old.repos + 1,
                  score |-> old.score + RepoScore(item.v, r, recency),
                  recent_activity |-> old.recent_activity + recency,
                  top_repo |-> IF item.v > old.top_repo.bytes
                               THEN [name |-> r.name, bytes |-> item.v]
                               ELSE old.top_repo]]

RECURSIVE AddLangs(_, _, _, _, _)
AddLangs(sk, langs, n, r, recency) ==
    IF n = 0 THEN sk ELSE AddLang(AddLangs(sk, langs, n - 1, r, recency), langs[n], r, recency)

\* lines 331-339: a repository below the size threshold is skipped, for any
\* other its languages are requested
AnalyzeRepoCall(r) ==
    /\ op = "idle"
    /\ calls < MaxRepos
    /\ calls' = calls + 1
    /\ repo' = r
    /\ IF r.size < MinRepoSize
       THEN UNCHANGED <<client, op>>
       ELSE op' = "analyze_repo" /\ RequestEnter(LangKey(r.name))
    /\ UNCHANGED <<faults, gar, skills, recs, processed, rendered, run>>

\* GitHubAPI.get_repo_languages, line 152: data or {}
RepoLanguages(result) == IF result.none THEN <<>> ELSE result.data

\* lines 339-376, once the languages request has returned
AnalyzeRepoReturn ==
    /\ op = "analyze_repo"
    /\ req.pc = "ret"
    /\ LET langs == RepoLanguages(req.result)
           recency == Recency(repo.pushed)
       IN  /\ skills' = AddLangs(skills, langs, Len(langs), repo, recency)
           /\ recs' = IF repo.pushed.kind = "date"
                      THEN recs \cup {[days |-> repo.pushed.days, weight |-> recency]}
                      ELSE recs
    /\ op' = "idle"
    /\ req' = IdleReq
    /\ UNCHANGED <<cache, rate_limit_remaining, rate_limit_reset, now, hist, log, calls,
                   faults, gar, repo, processed, rendered, run>>

----------------------------------------------------------------------------
(* AdvancedProfileAnalyzer._process_skills, lines 398-442                  *)

TopK == 12
MaxLevel == 10
MinLevel == 1

RECURSIVE SumScore(_, _)
SumScore(sk, n) == IF n = 0 THEN 0 ELSE SumScore(sk, n - 1) + sk[n].score

\* line 401: sum(...) or 1, in thousandths
TotalScore(sk) == LET t == SumScore(sk, Len(sk)) IN IF t = 0 THEN 1000 ELSE t

\* lines 404-409, doubled (commits count 0.5 each)
ContribBonus2(c) == c.prs * 16 + c.issues * 6 + c.reviews * 10 + c.commits

\* lines 416-420, in thousandths (the share of the total to a hundredth)
FinalScore(data, sk, c) ==
    LET total == TotalScore(sk)
        normalized == ((100 * data.score) \div total) * 1000
                         + ((((100 * data.score) % total) * 100) \div total) * 10
        contribution == (ContribBonus2(c) * 500) \div Max(Len(sk), 1)
        activity == (data.recent_activity * 10000) \div RecencyUnit
    IN  normalized + contribution + activity

\* the k in lo..hi with k*k <= n < (k+1)*(k+1)
IsqrtIn(n, lo, hi) == CHOOSE k \in lo..hi : k * k <= n /\ n < (k + 1) * (k + 1)

\* int(math.sqrt(final_score) * 1.2): the greatest k with k*k <= 1.44 * final_score
RawLevel(final) == LET x == (9 * final) \div 6250 IN IsqrtIn(x, 0, Min(x, 40000))

\* A level without its upper clamp.
LevelNoCeiling(final) == Max(MinLevel, RawLevel(final))

\* line 421: min(10, max(1, ...))
Level(final) == Min(MaxLevel, Max(MinLevel, RawLevel(final)))

\* lines 430-439 (frameworks and color left out)
SkillRecord(data, sk, c) ==
    [name |-> data.name,
     level |-> Level(FinalScore(data, sk, c)),
     repos |-> data.repos,
     bytes |-> data.bytes,
     top_repo |-> data.top_repo.name,
     score |-> FinalScore(data, sk, c)]

\* lines 411-439: the records in the order of the dict
RECURSIVE Records(_, _, _)
Records(sk, n, c) ==
    IF n = 0 THEN <<>>
    ELSE IF sk[n].bytes < NoiseFloor
    THEN Records(sk, n - 1, c)
    ELSE Append(Records(sk, n - 1, c), SkillRecord(sk[n], sk, c))

\* A ranking key that looks at the level alone.
KeyGreaterEqLevelOnly(a, b) == a.level >= b.level

\* the key (x['level'], x['bytes']), compared as tuples
KeyGreaterEq(a, b) == a.level > b.level \/ (a.level = b.level /\ a.bytes >= b.bytes)

\* sorted(..., reverse=True) is stable: x goes after everything not below it
InsertDesc(sorted, x) ==
    LET ahead == {i \in 1..Len(sorted) : KeyGreaterEq(sorted[i], x)}
        n == IF ahead = {} THEN 0 ELSE CHOOSE i \in ahead : \A j \in ahead : j <= i
    IN  SubSeq(sorted, 1, n) \o <<x>> \o SubSeq(sorted, n + 1, Len(sorted))

RECURSIVE SortDesc(_, _)
SortDesc(list, n) == IF n = 0 THEN <<>> ELSE InsertDesc(SortDesc(list, n - 1), list[n])

ProcessSkills(c) ==
    /\ op = "idle"
    /\ \E list \in {Records(skills, Len(skills), c)} :
          processed' = [done |-> TRUE, list |-> list,
                        out |-> Take(SortDesc(list, Len(list)), TopK)]
    /\ op' = "done"
    /\ UNCHANGED <<client, calls, faults, gar, repo, skills, recs, rendered, run>>

----------------------------------------------------------------------------
(* main, lines 828-840: what analyze() returned, or the placeholder *)

\* lines 832-840 (frameworks and color left out; top_repo '' is written 0,
\* as in NewSkill)
Placeholder ==
    [name |-> "Analyzing", level |-> 1, repos |-> 0, top_repo |-> 0, bytes |-> 100]

\* A main that hands on whatever analyze() returned.
MainSkillsNoPlaceholder(out) == out

\* lines 830-840: if not skills: skills = [placeholder]
MainSkills(out) == IF out = <<>> THEN <<Placeholder>> ELSE out

\* line 828 has returned; the generators of lines 852-857 get the list
MainRender ==
    /\ op = "done"
    /\ rendered' = MainSkills(processed.out)
    /\ op' = "render"
    /\ UNCHANGED <<client, calls, faults, gar, repo, skills, recs, processed, run>>

----------------------------------------------------------------------------
(* What the server may answer *)

NowSeconds == now \div TicksPerSecond

\* (X-RateLimit-Remaining, X-RateLimit-Reset) of a successful response
SuccessHeaders ==
    { <<Absent, Absent>>, <<Header(5), Header(NowSeconds + 30)>> }
\* the same two headers of a 403; ResetOffsets are seconds from now
ResetOffsets == {1, 30, 400}
ForbiddenHeaders ==
    { <<Absent, Absent>> } \cup { <<Header(0), Header(NowSeconds + d)>> : d \in ResetOffsets }
RetryAfterHeaders == {Absent, Header(400)}
Bodies == {Json(<<"a">>), Malformed}

NoGar == [limit |-> 0, page |-> 1, repos |-> <<>>, pages |-> <<>>, got |-> <<>>,
          result |-> <<>>, done |-> FALSE]
\* get_contribution_stats, line 174 (reviews and stars_given stay 0)
NoStats == [prs |-> 0, issues |-> 0, reviews |-> 0, commits |-> 0]
NoRun == [pc |-> "start", owner |-> FALSE, repos |-> <<>>, stats |-> NoStats, exit |-> 0]
NoRepo == [name |-> 0, size |-> 0, pushed |-> [kind |-> "missing", days |-> 0], stars |-> 0]

Init ==
    /\ cache = <<>>
    /\ rate_limit_remaining = InitialRemaining
    /\ rate_limit_reset = 0
    /\ now = Now0
    /\ req = IdleReq
    /\ hist = NoHist
    /\ log = <<>>
    /\ op = "idle"
    /\ calls = 0
    /\ faults = 0
    /\ gar = NoGar
    /\ repo = NoRepo
    /\ skills = <<>>
    /\ recs = {}
    /\ processed = [done |-> FALSE, list |-> <<>>, out |-> <<>>]
    /\ rendered = <<>>
    /\ run = NoRun

Fault == faults < MaxFaults /\ faults' = faults + 1

Respond ==
    \/ \E h \in SuccessHeaders, b \in Bodies : ReqSuccess(h[1], h[2], b) /\ UNCHANGED faults
    \/ \E h \in ForbiddenHeaders : ReqForbidden(h[1], h[2]) /\ Fault
    \/ ReqNotFound /\ Fault
    \/ \E ra \in RetryAfterHeaders : ReqTooMany(ra) /\ Fault
    \/ ReqHttpError /\ Fault
    \/ ReqNetworkError /\ Fault

Next ==
    \/ \E k \in Keys : CallRequest(k)
    \/ ReturnRequest
    \/ Respond

Spec == Init /\ [][Next]_vars

(* The server answers every attempt, or urlopen's timeout ends it: an      *)
(* attempt in flight is eventually answered, and a returned call is taken. *)
FairSpec == Spec /\ WF_vars(Respond) /\ WF_vars(ReturnRequest)

----------------------------------------------------------------------------
(* get_all_repos against the server: what a page of the listing may hold   *)

Limits == {0, 30, 400}
PageSizes == {0, PerPage - 1, PerPage}
ForkPatterns == {"none", "odd"}

\* of a listed repository only the name and the fork flag are read here
RepoOf(id, fork) == [name |-> id, fork |-> fork]

PageBody(page, n, pattern) ==
    [i \in 1..n |-> RepoOf((page - 1) * PerPage + i,
                           pattern = "odd" /\ i % 2 = 1)]

PageBodies == {Json(PageBody(gar.page, n, f)) : n \in PageSizes, f \in ForkPatterns}

RespondRepos ==
    \/ \E b \in PageBodies : ReqSuccess(Absent, Absent, b) /\ UNCHANGED faults
    \/ ReqNotFound /\ Fault
    \/ ReqHttpError /\ Fault

NextRepos ==
    \/ \E limit \in Limits : GetAllReposCall(limit)
    \/ GetAllReposPage
    \/ RespondRepos

SpecRepos == Init /\ [][NextRepos]_vars

FairSpecRepos == SpecRepos /\ WF_vars(RespondRepos) /\ WF_vars(GetAllReposPage)

----------------------------------------------------------------------------
(* analyze() against the server: the repositories it goes through, what    *)
(* their languages requests return, and the contribution counts            *)

WideLangs == 13     \* languages of the widest languages mapping

LangNames == <<"Python", "Java", "JavaScript", "TypeScript", "C++", "HTML", "CSS", "C#",
               "Go", "Rust", "PHP", "Ruby", "Swift", "Kotlin", "Dart", "Shell", "Dockerfile">>

Item(k, v) == [k |-> k, v |-> v]

WideBody == [i \in 1..Min(WideLangs, Len(LangNames)) |->
                Item(LangNames[i], 1000 + ((i * 7) % 5) * 60000 + (i % 2) * 500)]

Date(d) == [kind |-> "date", days |-> d]
Missing == [kind |-> "missing", days |-> 0]
Unparsable == [kind |-> "unparsable", days |-> 0]

Repo(size, stars, pushed) ==
    [name |-> calls + 1, size |-> size, stars |-> stars, pushed |-> pushed]

\* the repositories analyze() may meet next
RepoChoices ==
    { Repo(5, 0, Date(200)), Repo(20000, 12, Date(200)),
      Repo(500, 0, Date(-3)), Repo(500, 0, Date(730)), Repo(500, 0, Date(1000)),
      Repo(500, 0, Missing), Repo(500, 0, Unparsable) }

\* the languages the server holds for a repository
ServerLanguages(r) ==
    IF r.stars > 0 THEN WideBody
    ELSE IF r.pushed.kind = "unparsable" \/ r.pushed.days < 0
    THEN <<Item("Python", 999), Item("Java", 2000000)>>
    ELSE IF r.pushed.days > DecayDays THEN <<>>
    ELSE <<Item("Python", 3000)>>

LangBodies == {Json(ServerLanguages(repo)), Malformed}

Contrib(prs, issues, commits) ==
    [prs |-> prs, issues |-> issues, reviews |-> 0, commits |-> commits]

ContribStats == {Contrib(0, 0, 0), Contrib(3, 2, 100), Contrib(5000, 5000, 500)}

RespondAnalyze ==
    \/ \E b \in LangBodies : ReqSuccess(Absent, Absent, b) /\ UNCHANGED faults
    \/ ReqNotFound /\ Fault
    \/ ReqHttpError /\ Fault

NextAnalyze ==
    \/ \E r \in RepoChoices : AnalyzeRepoCall(r)
    \/ AnalyzeRepoReturn
    \/ \E c \in ContribStats : ProcessSkills(c)
    \/ MainRender
    \/ RespondAnalyze

SpecAnalyze == Init /\ [][NextAnalyze]_vars

----------------------------------------------------------------------------
(* main, lines 802-840, and analyze(), lines 309-327, as one run: the user *)
(* lookup, the listing, get_contribution_stats (two searches and its own   *)
(* listing), _analyze_repo for every listed repository, _process_skills.   *)

UserKey(owner) == CacheKey(IF owner THEN "users/U" ELSE "user", "{}")
SearchKey(type) == CacheKey("search/issues", type)

Frame(limit) == [limit |-> limit, page |-> 1, repos |-> <<>>, pages |-> <<>>,
                 got |-> <<>>, result |-> <<>>, done |-> FALSE]

\* d.get(k, default) on a decoded dict
Get(d, k, default) ==
    LET at == {i \in 1..Len(d) : d[i].k = k}
    IN  IF at = {} THEN default ELSE d[CHOOSE i \in at : TRUE].v

\* A search that counts one repository when it has no answer.
TotalCountOrOne(result) ==
    IF result.none \/ result.data = <<>> THEN 1
    ELSE Min(Get(result.data, "total_count", 0), 5000)

\* lines 181-182 and 186-187: if d: min(d.get('total_count', 0), 5000)
TotalCount(result) ==
    IF result.none \/ result.data = <<>> THEN 0
    ELSE Min(Get(result.data, "total_count", 0), 5000)

\* lines 808-818: the username comes from GITHUB_REPOSITORY_OWNER when that
\* is set (owner), else from the authenticated user; either way the user
\* info is requested
MainUserInfo(owner) ==
    /\ op = "idle"
    /\ run.pc = "start"
    /\ run' = [run EXCEPT !.pc = "user", !.owner = owner]
    /\ op' = "get_user_info"
    /\ RequestEnter(UserKey(owner))
    /\ UNCHANGED <<calls, faults, gar, repo, skills, recs, processed, rendered>>

\* get_user_info, line 123: data or {}
UserInfo(result) == IF result.none THEN <<>> ELSE result.data

\* lines 814-824: without a username main returns 1
MainUserInfoReturn ==
    /\ op = "get_user_info"
    /\ req.pc = "ret"
    /\ LET user_info == UserInfo(req.result)
           known == run.owner \/ Get(user_info, "login", "") # ""
       IN  IF known
           THEN run' = [run EXCEPT !.pc = "analyze"] /\ op' = "idle"
           ELSE run' = [run EXCEPT !.pc = "exit", !.exit = 1] /\ op' = "exit"
    /\ req' = IdleReq
    /\ UNCHANGED <<cache, rate_limit_remaining, rate_limit_reset, now, hist, log, calls,
                   faults, gar, repo, skills, recs, processed, rendered>>

\* line 314: repos = self.api.get_all_repos(self.username, limit=30)
AnalyzeListRepos ==
    /\ op = "idle"
    /\ run.pc = "analyze"
    /\ run' = [run EXCEPT !.pc = "listing"]
    /\ GarLoop(Frame(30))
    /\ UNCHANGED <<calls, faults, repo, skills, recs, processed, rendered>>

\* lines 317 and 174-180: the listing has returned; the first search
StatsSearchPrs ==
    /\ op = "idle"
    /\ run.pc = "listing"
    /\ gar.done
    /\ run' = [run EXCEPT !.pc = "prs", !.repos = gar.result]
    /\ op' = "stats"
    /\ RequestEnter(SearchKey("pr"))
    /\ UNCHANGED <<calls, faults, gar, repo, skills, recs, processed, rendered>>

\* lines 181-185
StatsSearchIssues ==
    /\ op = "stats"
    /\ run.pc = "prs"
    /\ req.pc = "ret"
    /\ run' = [run EXCEPT !.pc = "issues", !.stats.prs = TotalCount(req.result)]
    /\ RequestEnter(SearchKey("issue"))
    /\ UNCHANGED <<op, calls, faults, gar, repo, skills, recs, processed, rendered>>

\* lines 186-193: repos = self.get_all_repos(username, limit=10)
StatsListRepos ==
    /\ op = "stats"
    /\ run.pc = "issues"
    /\ req.pc = "ret"
    /\ run' = [run EXCEPT !.pc = "commits", !.stats.issues = TotalCount(req.result)]
    /\ GarLoop(Frame(10))
    /\ UNCHANGED <<calls, faults, repo, skills, recs, processed, rendered>>

\* lines 194-196: 50 commits per listed repository
StatsReturn ==
    /\ op = "idle"
    /\ run.pc = "commits"
    /\ gar.done
    /\ run' = [run EXCEPT !.pc = "repos", !.stats.commits = Len(gar.result) * 50]
    /\ UNCHANGED <<client, op, calls, faults, gar, repo, skills, recs, processed, rendered>>

\* lines 320-324: the next repository of the list (calls of them are done)
AnalyzeNextRepo ==
    /\ run.pc = "repos"
    /\ calls < Len(run.repos)
    /\ AnalyzeRepoCall(run.repos[calls + 1])

\* line 327
AnalyzeReturn ==
    /\ run.pc = "repos"
    /\ calls = Len(run.repos)
    /\ ProcessSkills(run.stats)

\* what the server holds for the run: a short page of n repositories,
\* the search counts, the user
ListedRepo(i) ==
    [name |-> i, fork |-> FALSE, size |-> 500, stars |-> 0, pushed |-> Missing]
ListedPage(n) == [i \in 1..n |-> ListedRepo(i)]
ListedPages == {Json(ListedPage(n)) : n \in 0..MaxRepos}
SearchBodies == {Json(<<Item("total_count", 7)>>), Malformed}
UserBodies == {Json(<<Item("login", "U")>>), Malformed}

RunBodies ==
    IF op = "get_all_repos" THEN ListedPages
    ELSE IF op = "analyze_repo" THEN {Json(ServerLanguages(repo))}
    ELSE IF op = "stats" THEN SearchBodies
    ELSE UserBodies

RespondRun ==
    \/ \E b \in RunBodies : ReqSuccess(Absent, Absent, b) /\ UNCHANGED faults
    \/ ReqNotFound /\ Fault
    \/ ReqHttpError /\ Fault

NextRun ==
    \/ \E owner \in BOOLEAN : MainUserInfo(owner)
    \/ MainUserInfoReturn
    \/ AnalyzeListRepos
    \/ GetAllReposPage
    \/ StatsSearchPrs
    \/ StatsSearchIssues
    \/ StatsListRepos
    \/ StatsReturn
    \/ AnalyzeNextRepo
    \/ AnalyzeRepoReturn
    \/ AnalyzeReturn
    \/ MainRender
    \/ RespondRun

SpecRun == Init /\ [][NextRun]_vars

(* The run is one sequential program: it takes its next step, and every    *)
(* attempt in flight is answered or ended by urlopen's timeout.            *)
FairSpecRun == SpecRun /\ WF_vars(NextRun)

----------------------------------------------------------------------------
(* Claims about the client *)

SameKey(i, j) == log[i].key = log[j].key

C8_BoundedAttempts ==
    /\ [](/\ hist.net <= RetryCount
          /\ Len(hist.codes) = hist.net
          /\ (req.pc = "attempt" => req.attempt = hist.net /\ req.attempt < RetryCount))
    /\ ((req.pc = "attempt") ~> (req.pc = "ret"))

C8_Witness ==
    /\ req.pc = "ret"
    /\ req.result.none
    /\ hist.codes \in {<<403, 403, 403>>, <<429, 403, 429>>, <<403, 429, 403>>}

Sleeps403 == {hist.sleeps[i] : i \in {n \in 1..Len(hist.sleeps) : hist.sleeps[n].kind = "403"}}

Abs(x) == IF x < 0 THEN -x ELSE x

\* C9, as stated: after a 403 whose reset is d >= 0 seconds ahead, the
\* client sleeps within 1 second of d (of the maximum wait, where d is
\* beyond it) and never more than 300 seconds.
C9_SleepWithinOneSecond ==
    \A s \in Sleeps403 :
        (s.header /\ s.d >= 0)
            => /\ Abs(s.dur - Min(s.d, MaxWait * TicksPerSecond)) <= TicksPerSecond
               /\ s.dur <= MaxWait * TicksPerSecond

\* C9, amended: the sleep is max(d, 1) + 1 seconds capped at 300: d + 1
\* seconds for 1 <= d <= 299 (within 1 second of d), 2 seconds for
\* 0 <= d < 1, 300 seconds from d = 299 on; never more than 300 seconds.
C9_SleepFormula ==
    \A s \in Sleeps403 :
        /\ s.dur <= MaxWait * TicksPerSecond
        /\ (s.header /\ s.d >= 0) =>
              /\ (s.d < TicksPerSecond => s.dur = 2 * TicksPerSecond)
              /\ (s.d >= TicksPerSecond /\ s.d <= (MaxWait - 1) * TicksPerSecond
                     => s.dur = s.d + TicksPerSecond)
              /\ (s.d >= (MaxWait - 1) * TicksPerSecond => s.dur = MaxWait * TicksPerSecond)

C9_Witness ==
    \E s \in Sleeps403 :
        s.header /\ s.d = 30 * TicksPerSecond /\ s.dur = 31 * TicksPerSecond

----------------------------------------------------------------------------
(* Claims about get_all_repos *)

RECURSIVE Delivered(_, _)
Delivered(got, n) == IF n = 0 THEN <<>> ELSE Delivered(got, n - 1) \o got[n].data

NonForks(got, n) == SelectSeq(Delivered(got, n), NotFork)

ShortPage(r) == r.none \/ Len(r.data) < PerPage

\* C10: get_all_repos returns at most limit repositories, no fork among
\* them, in the order the pages delivered them; it requests pages 1, 2, ...
\* in order, goes on only after a full page that left the count below
\* limit, never requests more than 3 pages, and always returns.
C10_Listing ==
    /\ [](/\ Len(gar.pages) <= MaxPages
          /\ \A i \in 1..Len(gar.pages) : gar.pages[i] = i
          /\ Len(gar.got) <= Len(gar.pages)
          /\ \A i \in 1..Len(gar.got) :
                i < Len(gar.pages) =>
                   ~ShortPage(gar.got[i]) /\ Len(NonForks(gar.got, i)) < gar.limit
          /\ gar.done =>
                /\ Len(gar.got) = Len(gar.pages)
                /\ Len(gar.result) <= gar.limit
                /\ \A i \in 1..Len(gar.result) : ~gar.result[i].fork
                /\ gar.result = Take(NonForks(gar.got, Len(gar.got)), gar.limit)
                /\ \/ Len(gar.pages) = MaxPages
                   \/ Len(NonForks(gar.got, Len(gar.got))) >= gar.limit
                   \/ Len(gar.got) > 0 /\ ShortPage(gar.got[Len(gar.got)]))
    /\ ((op = "get_all_repos") ~> (op = "idle" /\ gar.done))

C10_Witness ==
    /\ gar.done
    /\ Len(gar.pages) = MaxPages
    /\ Len(gar.result) > PerPage
    /\ Len(gar.result) < Len(Delivered(gar.got, Len(gar.got)))

----------------------------------------------------------------------------
(* Claims about the analyzer *)

RecordsOf(list) == {list[i] : i \in 1..Len(list)}

\* C2: every record _process_skills returns has an integer level with
\* 1 <= level <= 10.
C2_LevelInRange ==
    \A r \in RecordsOf(processed.list) \cup RecordsOf(processed.out) :
        r.level \in MinLevel..MaxLevel

C2_Witness ==
    /\ processed.done
    /\ \E r \in RecordsOf(processed.out) : r.level = MaxLevel /\ RawLevel(r.score) > MaxLevel
    /\ \E r \in RecordsOf(processed.out) : r.level < MaxLevel /\ r.level = RawLevel(r.score)

\* C3: a language with exactly one contributing repository never gets a
\* level above 6.
C3_SingleRepoCappedAt6 ==
    \A r \in RecordsOf(processed.out) : r.repos = 1 => r.level <= 6

\* C4: a language with total bytes below the minimal-volume threshold (the
\* scenario: 1 repository, 3,000 bytes) gets level 1.
C4_MinimalVolumeLevel1 ==
    \A r \in RecordsOf(processed.out) : r.bytes <= 3000 => r.level = 1

\* C5: the returned sequence is sorted descending by (level, bytes), has at
\* most 12 records, and holds the greatest of the qualifying records.
C5_RankedTopK ==
    processed.done =>
        LET out == processed.out
            list == processed.list
        IN  /\ \A i \in 1..(Len(out) - 1) :
                  \/ out[i].level > out[i + 1].level
                  \/ out[i].level = out[i + 1].level /\ out[i].bytes >= out[i + 1].bytes
            /\ Len(out) = Min(TopK, Len(list))
            /\ RecordsOf(out) \subseteq RecordsOf(list)
            /\ Cardinality(RecordsOf(out)) = Len(out)
            /\ \A k \in RecordsOf(out) : \A d \in RecordsOf(list) \ RecordsOf(out) :
                  \/ k.level > d.level
                  \/ k.level = d.level /\ k.bytes >= d.bytes

C5_Witness ==
    /\ processed.done
    /\ Len(processed.list) > TopK
    /\ Len(processed.out) = TopK
    /\ processed.out # Take(processed.list, TopK)
    /\ \E i \in 1..(TopK - 1) :
          /\ processed.out[i].level = processed.out[i + 1].level
          /\ processed.out[i].bytes > processed.out[i + 1].bytes
    /\ \E i \in 1..(TopK - 1) : processed.out[i].level > processed.out[i + 1].level

\* C6: the recency weight computed from a date does not increase with
\* days_old, is the floor from the decay window on, and is never below the
\* floor nor negative.
C6_RecencyMonotone ==
    /\ \A p, q \in recs : p.days <= q.days => p.weight >= q.weight
    /\ \A p \in recs :
          /\ p.days >= DecayDays => p.weight = RecencyFloor
          /\ p.weight >= RecencyFloor
          /\ p.weight >= 0

C6_Witness ==
    \E p, q \in recs :
        /\ 0 <= p.days /\ p.days < q.days /\ p.weight > q.weight
        /\ q.days >= DecayDays /\ q.weight = RecencyFloor

Last(seq) == seq[Len(seq)]
Got404 == hist.codes # <<>> /\ Last(hist.codes) = 404

\* C7: a 404 ends the call at once with the absent result: the attempt
\* that met it is the call's last, and nothing is slept, cached or retried
\* after it; when the call was for a repository's languages, the repository
\* leaves every aggregate as it was and the analysis goes on.
C7_NotFound ==
    /\ [][hist'.codes = Append(hist.codes, 404) =>
            /\ req'.pc = "ret" /\ req'.result = NoResult
            /\ hist'.net = hist.net + 1
            /\ hist'.sleeps = hist.sleeps /\ now' = now
            /\ cache' = cache]_vars
    /\ [](/\ Got404 => req.pc # "attempt" /\ (hist.codes = <<404>> => hist.net = 1)
          /\ (op = "idle" /\ calls < MaxRepos) => \A r \in RepoChoices : ENABLED AnalyzeRepoCall(r))
    /\ [][(op = "analyze_repo" /\ req.pc = "ret" /\ Got404 /\ op' # op) =>
            /\ skills' = skills
            /\ op' = "idle"]_vars

C7_Witness ==
    /\ Len(log) >= 2
    /\ log[1].none /\ log[1].net = 1
    /\ op = "idle" /\ calls = 2
    /\ skills # <<>>

\* C11: the list main hands to the rendering components is never empty:
\* it is what analyze() returned when that has a record, and otherwise the
\* single placeholder record named Analyzing with level 1.
C11_NeverEmptyToRender ==
    op = "render" =>
        /\ Len(rendered) >= 1
        /\ processed.out = <<>> =>
              /\ Len(rendered) = 1
              /\ rendered[1].name = "Analyzing" /\ rendered[1].level = 1
        /\ processed.out # <<>> => rendered = processed.out

C11_Witness ==
    /\ op = "render"
    /\ calls > 0
    /\ processed.done /\ processed.out = <<>>
    /\ rendered = <<Placeholder>>

----------------------------------------------------------------------------
(* Claims about the retry loop and the tracked quota *)

Backoffs == {i \in 1..Len(hist.sleeps) : hist.sleeps[i].kind = "net"}

\* the attempts of the running call that failed with an HTTP error other
\* than 403, 404 and 429 or with a network error, and were not the last of
\* the attempt budget
RetriedFailures ==
    {i \in 1..Len(hist.codes) : hist.codes[i] \in {0, 500} /\ i < RetryCount}

\* C12: every attempt that fails with an HTTP error other than 403, 404 and
\* 429 or with a network error is followed by a backoff sleep of 2^attempt
\* seconds before the next attempt, and after the last attempt of the
\* budget the call returns the failure result.
C12_BackoffBeforeRetry ==
    /\ Cardinality(Backoffs) = Cardinality(RetriedFailures)
    /\ \A i \in Backoffs :
          hist.sleeps[i].dur \in {Pow2(k) * TicksPerSecond : k \in 0..(RetryCount - 2)}
    /\ (Len(hist.codes) = RetryCount /\ hist.codes[RetryCount] \in {0, 500})
          => req.pc # "attempt" /\ req.result = NoResult

\* a non-cached call starts: the check and the pacing delay happen, and
\* the first attempt is about to be sent
Entering == req.pc # "attempt" /\ req'.pc = "attempt"

\* the tracked quota after the stale-state refresh
Refreshed ==
    IF now >= rate_limit_reset * TicksPerSecond THEN InitialRemaining
    ELSE rate_limit_remaining

UntilReset == rate_limit_reset * TicksPerSecond - now

\* C14: when a non-cached call starts with the refreshed quota below 10,
\* the client sleeps until the tracked reset time has passed, 300 seconds
\* at most, and sets the quota to 5000; otherwise it does not sleep there;
\* so the quota is at least 10 when the first attempt of a call is sent.
C14_LowQuotaBlocks ==
    /\ [][Entering =>
            IF Refreshed < LowWaterMark
            THEN /\ now' - 1 - now = Min(UntilReset + TicksPerSecond, MaxWait * TicksPerSecond)
                 /\ now' - 1 - now <= MaxWait * TicksPerSecond
                 /\ (now' - 1 - now < MaxWait * TicksPerSecond
                        => now' - 1 >= rate_limit_reset * TicksPerSecond)
                 /\ rate_limit_remaining' = InitialRemaining
                 /\ hist'.sleeps[1].kind = "low" /\ hist'.sleeps[1].dur = now' - 1 - now
            ELSE /\ now' = now + 1
                 /\ rate_limit_remaining' = Refreshed]_vars
    /\ []((req.pc = "attempt" /\ hist.net = 0) => rate_limit_remaining >= LowWaterMark)

C14_Witness ==
    /\ req.pc = "attempt" /\ hist.net = 0
    /\ hist.sleeps[1].kind = "low"
    /\ hist.sleeps[1].dur < MaxWait * TicksPerSecond
    /\ now - 1 >= rate_limit_reset * TicksPerSecond
    /\ rate_limit_remaining = InitialRemaining

\* C15: the tracked quota is never negative, whatever was requested and
\* answered; and a non-cached call that starts at or after the tracked
\* reset time takes the quota as 5000 before the low-quota check, so it
\* does not wait there.
C15_QuotaNonNegative ==
    /\ [](rate_limit_remaining >= 0)
    /\ [][(Entering /\ now >= rate_limit_reset * TicksPerSecond)
             => /\ rate_limit_remaining' = InitialRemaining
                /\ now' = now + 1
                /\ \A i \in 1..Len(hist'.sleeps) : hist'.sleeps[i].kind # "low"]_vars

\* a later call has started after a response had set the reset time (and
\* with it a quota of 5 or less), the reset time has passed, and the quota
\* is 5000 again without any wait
C15_Witness ==
    /\ req.pc = "attempt" /\ hist.net = 0
    /\ Len(log) >= 1
    /\ rate_limit_reset > 0
    /\ now - 1 >= rate_limit_reset * TicksPerSecond
    /\ hist.sleeps = <<SleepRec("pace", 1, 0)>>
    /\ rate_limit_remaining = InitialRemaining

\* C16: a successful response sets the tracked quota and reset time to
\* the values of its rate-limit headers, whatever they were before, stores
\* the decoded body (the empty structure for a malformed one) in the cache
\* under the key of the request, and the call returns that same body.
C16_SuccessUpdates ==
    [][\A h \in SuccessHeaders, b \in Bodies :
          ReqSuccess(h[1], h[2], b) =>
             /\ h[1].present => rate_limit_remaining' = h[1].value
             /\ h[2].present => rate_limit_reset' = h[2].value
             /\ req.key \in DOMAIN cache'
             /\ cache'[req.key] = (IF b.json THEN b.value ELSE <<>>)
             /\ \A k \in DOMAIN cache : k # req.key => cache'[k] = cache[k]
             /\ req'.pc = "ret" /\ ~req'.result.none
             /\ req'.result.data = cache'[req.key]
             /\ Last(log') = Done(req.key, req'.result, hist')]_vars

\* a call that waited for quota, so that the check had set 5000, got a
\* successful response with headers and a body at its first attempt
C16_Witness ==
    /\ req.pc = "ret" /\ hist.codes = <<200>>
    /\ hist.sleeps[1].kind = "low"
    /\ rate_limit_remaining = 5
    /\ rate_limit_reset * TicksPerSecond > now
    /\ req.key \in DOMAIN cache
    /\ cache[req.key] = <<"a">> /\ req.result = Result(<<"a">>)

\* a call has just returned from the cache
Hit == Len(log') = Len(log) + 1 /\ Last(log').hit

\* C19: a call whose key is in the cache returns the stored body and
\* changes nothing: no attempt, no sleep (the clock stands), the tracked
\* quota, reset time and the cache as before; only a call whose key is not
\* cached goes to the network; and an entry of the cache stays as it is
\* for the rest of the run.
C19_HitHasNoEffect ==
    /\ [][Hit =>
            /\ Last(log').key \in DOMAIN cache
            /\ req'.pc = "ret" /\ req'.result = Result(cache[Last(log').key])
            /\ hist'.net = 0 /\ hist'.sleeps = <<>> /\ now' = now
            /\ rate_limit_remaining' = rate_limit_remaining
            /\ rate_limit_reset' = rate_limit_reset
            /\ cache' = cache]_vars
    /\ [][Entering => req'.key \notin DOMAIN cache]_vars
    /\ [][\A k \in DOMAIN cache : k \in DOMAIN cache' /\ cache'[k] = cache[k]]_vars

\* a hit while the tracked quota is low and the reset time still ahead: a
\* call that went to the network would have waited here
C19_Witness ==
    /\ req.pc = "ret" /\ hist.hit
    /\ hist.net = 0 /\ hist.sleeps = <<>>
    /\ rate_limit_remaining < LowWaterMark
    /\ now < rate_limit_reset * TicksPerSecond
    /\ req.result = Result(cache[req.key])

----------------------------------------------------------------------------
(* Claims about the run *)

Failed(key) == \E i \in 1..Len(log) : log[i].key = key /\ log[i].none

\* what C13 says of the units of the aggregation: a failed search counts
\* 0, a failed page ends the listing with what the earlier pages gave, a
\* failed languages request leaves every aggregate as it was, and
\* _process_skills runs once every listed repository has been gone through
C13_Degrades ==
    /\ [](/\ (run.pc \in {"issues", "commits", "repos"} /\ Failed(SearchKey("pr")))
                => run.stats.prs = 0
          /\ (run.pc \in {"commits", "repos"} /\ Failed(SearchKey("issue")))
                => run.stats.issues = 0
          /\ (gar.done /\ gar.got # <<>> /\ Last(gar.got).none)
                => gar.result = Take(NonForks(gar.got, Len(gar.got) - 1), gar.limit)
          /\ processed.done => calls = Len(run.repos)
          /\ run.exit = 0 \/ run.pc = "exit")
    /\ [][(op = "analyze_repo" /\ req.pc = "ret" /\ req.result.none /\ op' # op)
             => skills' = skills /\ op' = "idle" /\ run' = run]_vars
    /\ ((run.pc = "analyze") ~> (processed.done /\ op = "render"))

\* C13, as stated: a failed sub-request never ends the run; whichever of
\* the languages, page, search or user lookup requests fails, the caller
\* takes an empty value and analyze() still goes through every repository
\* and returns a result.
C13_NeverAborts ==
    /\ C13_Degrades
    /\ ((run.pc = "user" /\ req.pc = "ret" /\ req.result.none) ~> processed.done)

\* C13, amended: as C13_Degrades for the requests inside analyze(); a
\* failed user lookup is taken as {} and the run goes on when the username
\* came from GITHUB_REPOSITORY_OWNER, and only then: without it main has no
\* username and returns 1 before analyze() starts.
C13_FailureDegrades ==
    /\ C13_Degrades
    /\ [][(run.pc = "user" /\ req.pc = "ret" /\ req.result.none /\ run' # run)
             => IF run.owner THEN run'.pc = "analyze" /\ run'.exit = 0
                             ELSE run'.pc = "exit" /\ run'.exit = 1]_vars
    /\ ((run.pc = "user" /\ run.owner) ~> processed.done)

C13_Witness ==
    /\ op = "render"
    /\ run.owner /\ Failed(UserKey(TRUE))
    /\ Failed(SearchKey("pr")) /\ run.stats.prs = 0 /\ run.stats.issues = 7
    /\ Failed(LangKey(1))
    /\ calls = 2
    /\ Len(rendered) = 1 /\ rendered[1].repos = 1 /\ rendered[1].top_repo = 2

----------------------------------------------------------------------------
(* Claims about the aggregates *)

Languages == {LangNames[j] : j \in 1..Len(LangNames)}

\* what the languages request number i returned for language L, if that
\* passes the noise floor (a failed request returned nothing)
Passing(L, i) ==
    LET v == Get(log[i].data, L, 0) IN IF v >= NoiseFloor THEN v ELSE 0

ExpectedRepos(L) == Cardinality({i \in 1..Len(log) : Passing(L, i) > 0})

RECURSIVE ExpectedBytes(_, _)
ExpectedBytes(L, n) == IF n = 0 THEN 0 ELSE ExpectedBytes(L, n - 1) + Passing(L, n)

\* C17: once the repositories have been gone through, skills[L].repos is
\* the number of them with size >= 10 whose byte count for L is at least
\* 1000 and skills[L].bytes is the sum of those byte counts, for every
\* language L; a repository with size < 10 is not even asked for its
\* languages, and a language with no such repository has no entry.
C17_Aggregates ==
    /\ op = "analyze_repo" => repo.size >= MinRepoSize
    /\ Len(log) <= calls
    /\ op \in {"idle", "done", "render"} =>
          \A L \in Languages :
             LET at == {i \in 1..Len(skills) : skills[i].name = L}
             IN  IF ExpectedRepos(L) = 0 THEN at = {}
                 ELSE /\ Cardinality(at) = 1
                      /\ \A i \in at :
                            /\ skills[i].repos = ExpectedRepos(L)
                            /\ skills[i].bytes = ExpectedBytes(L, Len(log))

\* two repositories were gone through: one reported 999 bytes of Python,
\* which are not counted, the other 3000, which are
C17_Witness ==
    /\ op = "idle" /\ calls = 2 /\ Len(log) = 2
    /\ \E i \in 1..Len(log) : Get(log[i].data, "Python", 0) = 999
    /\ \E i \in 1..Len(skills) :
          skills[i].name = "Python" /\ skills[i].repos = 1 /\ skills[i].bytes = 3000
    /\ \E i \in 1..Len(skills) : skills[i].name = "Java" /\ skills[i].repos = 1

\* the languages whose only contributing repository is the one that was
\* gone through last: their recent_activity is its recency weight
OfLastRepo == {i \in 1..Len(skills) : skills[i].repos = 1 /\ skills[i].top_repo.name = repo.name}

\* C18: every recency weight added to recent_activity lies between the
\* floor (0.3) and 1.0, whatever pushed_at is, and an unparsable pushed_at
\* gives the floor.
C18_WeightInRange ==
    /\ \A i \in 1..Len(skills) :
          /\ skills[i].recent_activity >= skills[i].repos * RecencyFloor
          /\ skills[i].recent_activity <= skills[i].repos * RecencyUnit
    /\ (op = "idle" /\ repo.pushed.kind = "unparsable") =>
          \A i \in OfLastRepo : skills[i].recent_activity = RecencyFloor

====
